---- MODULE Spec2Model ----
(***************************************************************************)
(* Model of sensor_processing::SensorFusion (sensor_fusion.cpp): the       *)
(* constructor and the synchronized callback process(), which bins a lidar *)
(* cloud into a polar grid, fits a ground plane, labels the polar cells    *)
(* FREE / UNKNOWN / OCCUPIED and rasterizes them into an occupancy grid.   *)
(*                                                                         *)
(* Numbers.  The code computes in float; the model computes in fixed point *)
(* with one unit = 1 cm for every length (x, y, z, ranges, cell size) and  *)
(* exact integer arithmetic.  Angles are never represented: every angle    *)
(* comparison the code makes is decided exactly from the coordinates       *)
(* (tan(pi/8) = sqrt(2) - 1, compared through squares).  The only rounded  *)
(* quantities are the representative coordinates of a polar cell           *)
(* (cos/sin to three decimals) and the quotients by the plane's z          *)
(* coefficient (rounded down to the unit).                                 *)
(***************************************************************************)
EXTENDS Integers, Sequences, FiniteSets, TLC

\* ---------------------------------------------------------------- bounds
\* Longest input cloud of a frame, and the number of frames processed.
MaxPoints == 3
MaxFrames == 2

\* --------------------------------------------------------- configuration
\* params_ as read by the constructor (all lengths in cm).
GridMinRange == 10
GridMaxRange == 60
GridCellSize == 20
GridMinHeight == 15
GridSegments == 2
LidarMinHeight == -200

\* The hard-coded window of the sanity check on the center ground height
\* (-2 m and -1.5 m).
GroundHeightLow == -200
GroundHeightHigh == -150

Sq(n) == n * n

Abs(n) == IF n < 0 THEN -n ELSE n

\* int(sqrt(n) / c): the largest b with (b*c)^2 <= n.
FloorSqrtDiv(n, c) ==
  CHOOSE b \in 0..(n \div c + 1) : Sq(b * c) <= n /\ Sq((b + 1) * c) > n

\* params_.grid_height = grid_max_range / grid_cell_size (float to int).
GridHeight == GridMaxRange \div GridCellSize

\* params_.grid_width = grid_height * 2.
GridWidth == GridHeight * 2

\* params_.grid_bins = (grid_max_range * sqrt(2)) / grid_cell_size + 1.
GridBins == FloorSqrtDiv(2 * Sq(GridMaxRange), GridCellSize) + 1

\* params_.inv_angular_res = 2 * grid_segments / pi, kept as the number of
\* sixteenths of a turn (pi/8) per segment: (pi/2 / segments) / (pi/8).
\* The model covers the segment counts that divide 4.
SixteenthsPerSegment == 4 \div GridSegments

Segs == 0..(GridSegments - 1)

Bins == 0..(GridBins - 1)

\* ------------------------------------------------------------- geometry
\* floor(phi / (pi/8)) for a direction (p, q) with p > 0, q >= 0, where
\* phi = atan2(q, p) lies in [0, pi/2).
Oct1(p, q) ==
  IF Sq(p + q) < 2 * Sq(p) THEN 0
  ELSE IF q < p THEN 1
  ELSE IF Sq(p + q) > 2 * Sq(q) THEN 2
  ELSE 3

\* floor(phi / (pi/8)) for any direction, phi = atan2(q, p) taken in
\* [0, 2 pi); atan2(0, 0) = 0.
Oct16(p, q) ==
  IF p = 0 /\ q = 0 THEN 0
  ELSE IF p > 0 /\ q >= 0 THEN Oct1(p, q)
  ELSE IF p <= 0 /\ q > 0 THEN 4 + Oct1(q, -p)
  ELSE IF p < 0 /\ q <= 0 THEN 8 + Oct1(-p, -q)
  ELSE 12 + Oct1(-q, p)

\* int((ang + lidar_opening_angle) * inv_angular_res) with
\* ang = -atan2(y, x) in [-pi, pi).  ang + pi/4 is the direction of
\* (x + y, x - y); in sixteenths of a turn it is u in [-6, 10).  The
\* conversion to int truncates toward zero.
SegmentOfAngle(x, y) ==
  LET p == x + y
      q == x - y
      m == IF p = 0 /\ q = 0 THEN 2 ELSE Oct16(p, q)
      exact == p = 0 \/ q = 0 \/ p = q \/ p = -q
      fl == IF m >= 10 THEN m - 16 ELSE m
      cl == IF exact THEN fl ELSE fl + 1
  IN  IF fl >= 0 THEN fl \div SixteenthsPerSegment
      ELSE -((-cl) \div SixteenthsPerSegment)

\* fromVeloCoordsToPolarCell without its "For last segment" correction.
PolarCellWithoutLastSegmentFix(x, y) ==
  [seg |-> SegmentOfAngle(x, y),
   bin |-> FloorSqrtDiv(Sq(x) + Sq(y), GridCellSize)]

\* SensorFusion::fromVeloCoordsToPolarCell.
FromVeloCoordsToPolarCell(x, y) ==
  [seg |-> IF x = -y THEN GridSegments - 1 ELSE SegmentOfAngle(x, y),
   bin |-> FloorSqrtDiv(Sq(x) + Sq(y), GridCellSize)]

\* 1000 * cos and 1000 * sin of k sixteenths of a turn, k in -2..2.
Cos1000(k) == IF k = 0 THEN 1000 ELSE IF Abs(k) = 1 THEN 924 ELSE 707

Sin1000(k) ==
  IF k = 0 THEN 0
  ELSE (IF k < 0 THEN -1 ELSE 1) * (IF Abs(k) = 1 THEN 383 ELSE 707)

\* SensorFusion::fromPolarCellToVeloCoords.
FromPolarCellToVeloCoords(seg, bin) ==
  LET mag == bin * GridCellSize
      ang == seg * SixteenthsPerSegment - 2
  IN  [x |-> (Cos1000(ang) * mag) \div 1000,
       y |-> (-(Sin1000(ang) * mag)) \div 1000]

\* Whether a (seg, bin) pair indexes polar_grid_.
InGrid(c) == c.seg \in Segs /\ c.bin \in Bins

VPoint(x, y, z) == [x |-> x, y |-> y, z |-> z]

\* ----------------------------------------------------------- polar cells
\* A default-constructed PolarCell: nothing binned, no label yet.
DefaultCell ==
  [count |-> 0, x_min |-> 0, y_min |-> 0, z_min |-> 0, z_max |-> 0,
   ground |-> 0, height |-> 0, idx |-> "NOT_SET"]

\* std::vector< std::vector<PolarCell> >(grid_segments,
\*   std::vector<PolarCell>(grid_bins)).
NewPolarGrid == [s \in Segs |-> [b \in Bins |-> DefaultCell]]

\* The grid left as the previous frame filled it.
KeepPolarGrid(old) == old

\* "Reset polar grid": the member is assigned a newly built grid, whatever
\* it held.
ResetPolarGrid(old) == NewPolarGrid

\* points.clear() on a cloud member.
ClearPoints(old) == << >>

\* ------------------------------------------------- 1. filter and binning
\* The angle, range and height checks of the input loop.
\* |atan2(y, x)| < pi/4 iff x > 0 and |y| < x.
PassesGate(point) ==
  /\ point.x > 0 /\ Abs(point.y) < point.x
  /\ Sq(point.x) + Sq(point.y) > Sq(GridMinRange)
  /\ Sq(point.x) + Sq(point.y) < Sq(GridMaxRange)
  /\ point.z > LidarMinHeight

\* The update with a lower point taking over z_min but not x_min, y_min.
UpdateCellKeepingXY(cell, point) ==
  LET n == cell.count + 1 IN
  IF n = 1
  THEN [cell EXCEPT !.count = n, !.x_min = point.x, !.y_min = point.y,
                    !.z_min = point.z, !.z_max = point.z]
  ELSE LET lower == IF point.z < cell.z_min
                    THEN [cell EXCEPT !.count = n, !.z_min = point.z]
                    ELSE [cell EXCEPT !.count = n]
       IN  IF point.z > lower.z_max
           THEN [lower EXCEPT !.z_max = point.z]
           ELSE lower

\* "Increase count" and "Update min max" on the cell of a point.
UpdateCell(cell, point) ==
  LET n == cell.count + 1 IN
  IF n = 1
  THEN [cell EXCEPT !.count = n, !.x_min = point.x, !.y_min = point.y,
                    !.z_min = point.z, !.z_max = point.z]
  ELSE LET lower == IF point.z < cell.z_min
                    THEN [cell EXCEPT !.count = n, !.x_min = point.x,
                                      !.y_min = point.y, !.z_min = point.z]
                    ELSE [cell EXCEPT !.count = n]
       IN  IF point.z > lower.z_max
           THEN [lower EXCEPT !.z_max = point.z]
           ELSE lower

\* The loop over the input cloud from point i on.  acc holds the grid, the
\* indices kept (pcl_inliers), the (seg, bin) pairs used as indices and
\* whether one of them was outside the grid (the loop is cut there: the
\* access is undefined).
RECURSIVE BinPoints(_, _, _)
BinPoints(cloud, i, acc) ==
  IF i > Len(cloud) \/ acc.fault THEN acc
  ELSE LET point == cloud[i] IN
       IF PassesGate(point)
       THEN LET c == FromVeloCoordsToPolarCell(point.x, point.y)
                kept == [acc EXCEPT !.indices = Append(@, i),
                                    !.used = @ \cup {c}]
            IN  IF InGrid(c)
                THEN BinPoints(cloud, i + 1,
                       [kept EXCEPT !.grid[c.seg][c.bin] =
                                       UpdateCell(@, point)])
                ELSE [kept EXCEPT !.fault = TRUE]
       ELSE BinPoints(cloud, i + 1, acc)

\* pcl_extractor.filter: the points at the kept indices, in order.
ExtractIndices(cloud, indices) ==
  [k \in 1..Len(indices) |-> cloud[indices[k]]]

\* Section 1 of process() on the grid the member held before the call.
FilterAndBin(oldGrid, cloud) ==
  LET r == BinPoints(cloud, 1,
             [grid |-> ResetPolarGrid(oldGrid), indices |-> << >>,
              used |-> {}, fault |-> FALSE])
  IN  [grid |-> r.grid, filtered |-> ExtractIndices(cloud, r.indices),
       used |-> r.used, fault |-> r.fault]

\* ------------------------------------------------------ 2. ground plane
\* "Check if cell can be ground cell".
IsGroundCell(cell) ==
  cell.count > 0 /\ cell.z_max - cell.z_min < GridMinHeight

\* The loop over the polar grid that fills pcl_ground_plane_, from cell
\* (i, j) on, appending to acc.
RECURSIVE GroundPlaneLoop(_, _, _, _)
GroundPlaneLoop(grid, i, j, acc) ==
  IF i >= GridSegments THEN acc
  ELSE IF j >= GridBins THEN GroundPlaneLoop(grid, i + 1, 0, acc)
  ELSE LET cell == grid[i][j] IN
       GroundPlaneLoop(grid, i, j + 1,
         IF IsGroundCell(cell)
         THEN Append(acc, VPoint(cell.x_min, cell.y_min, cell.z_min))
         ELSE acc)

GroundPlanePoints(oldCloud, grid) ==
  GroundPlaneLoop(grid, 0, 0, ClearPoints(oldCloud))

\* The planes the fit is taken to return: <<a, b, c, d>> of
\* a x + b y + c z + d = 0, up to a common factor, c # 0.  The first is a
\* level ground 1.73 m below the sensor; the second, with its normal
\* pointing down, rises to 1.40 m below the sensor at the center and falls
\* 1 cm every 10 cm forward.
Planes == { <<0, 0, 1, 173>>, <<-1, 0, -10, -1400>> }

\* pcl::SACSegmentation::segment on the candidate cloud: either no model
\* (the inliers and the coefficient vector are both left empty, which is
\* all it can do with fewer than three points) or a plane with its
\* inliers.
SegmentOutcomes(cands) ==
  { [values |-> << >>, inliers |-> 0] } \cup
  (IF Len(cands) >= 3
   THEN { [values |-> v, inliers |-> Len(cands)] : v \in Planes }
   ELSE {})

\* n / d rounded down, for either sign of d # 0.
Quot(n, d) == IF d > 0 THEN n \div d ELSE (-n) \div (-d)

\* ground_height = -values[3] / values[2].
CenterGroundHeight(values) == Quot(-values[4], values[3])

\* The condition of the "Sanity check".
BadGroundPlane(values, inliers) ==
  \/ inliers = 0
  \/ CenterGroundHeight(values) < GroundHeightLow
  \/ CenterGroundHeight(values) > GroundHeightHigh

\* ------------------------------------------------- 3. classification sweep
\* cell.ground = (-values[0] * x - values[1] * y - values[3]) / values[2]
\* at the representative position of cell (s, b).
GroundAt(values, s, b) ==
  LET at == FromPolarCellToVeloCoords(s, b) IN
  Quot(-(values[1] * at.x) - values[2] * at.y - values[4], values[3])

\* The labelling with every empty cell marked FREE, hit or not.
LabelCellIgnoringHit(cell, hit) ==
  IF cell.count = 0
  THEN [cell |-> [cell EXCEPT !.idx = "FREE"], hit |-> hit]
  ELSE LET h == cell.z_max - cell.ground IN
       IF h > GridMinHeight
       THEN [cell |-> [cell EXCEPT !.height = h, !.idx = "OCCUPIED"],
             hit |-> TRUE]
       ELSE [cell |-> [cell EXCEPT !.height = h,
                          !.idx = IF hit THEN "UNKNOWN" ELSE "FREE"],
             hit |-> hit]

\* The labelling with every non-empty cell marking the segment as hit.
LabelCellAnyPointHits(cell, hit) ==
  IF cell.count = 0
  THEN [cell |-> [cell EXCEPT !.idx = IF hit THEN "UNKNOWN" ELSE "FREE"],
        hit |-> hit]
  ELSE LET h == cell.z_max - cell.ground IN
       IF h > GridMinHeight
       THEN [cell |-> [cell EXCEPT !.height = h, !.idx = "OCCUPIED"],
             hit |-> TRUE]
       ELSE [cell |-> [cell EXCEPT !.height = h,
                          !.idx = IF hit THEN "UNKNOWN" ELSE "FREE"],
             hit |-> TRUE]

\* The body of the loop over bins for one cell whose ground is set: the
\* cell as labelled and the hit flag after it.
LabelCell(cell, hit) ==
  IF cell.count = 0
  THEN [cell |-> [cell EXCEPT !.idx = IF hit THEN "UNKNOWN" ELSE "FREE"],
        hit |-> hit]
  ELSE LET h == cell.z_max - cell.ground IN
       IF h > GridMinHeight
       THEN [cell |-> [cell EXCEPT !.height = h, !.idx = "OCCUPIED"],
             hit |-> TRUE]
       ELSE [cell |-> [cell EXCEPT !.height = h,
                          !.idx = IF hit THEN "UNKNOWN" ELSE "FREE"],
             hit |-> hit]

\* The loop over the bins of segment s from bin b on.
RECURSIVE SweepBins(_, _, _, _, _)
SweepBins(row, values, s, b, hit) ==
  IF b >= GridBins THEN row
  ELSE LET r == LabelCell([row[b] EXCEPT !.ground = GroundAt(values, s, b)],
                          hit)
       IN  SweepBins([row EXCEPT ![b] = r.cell], values, s, b + 1, r.hit)

\* The loop over segments: each starts with hit = false.
SweepSegments(grid, values) ==
  [s \in Segs |-> SweepBins(grid[s], values, s, 0, FALSE)]

\* The test on the point's own z alone.
IsElevatedByPointOnly(point, cell) == point.z > cell.ground

\* The test that sends a filtered point to the elevated cloud.
IsElevated(point, cell) ==
  point.z > cell.ground /\ cell.height > GridMinHeight

\* "Divide filtered point cloud in elevated and ground", from point i on.
RECURSIVE DivideLoop(_, _, _, _)
DivideLoop(grid, cloud, i, acc) ==
  IF i > Len(cloud) \/ acc.fault THEN acc
  ELSE LET point == cloud[i]
           c == FromVeloCoordsToPolarCell(point.x, point.y)
           seen == [acc EXCEPT !.used = @ \cup {c}]
       IN  IF ~InGrid(c) THEN [seen EXCEPT !.fault = TRUE]
           ELSE DivideLoop(grid, cloud, i + 1,
                  IF IsElevated(point, grid[c.seg][c.bin])
                  THEN [seen EXCEPT !.elevated = Append(@, point)]
                  ELSE [seen EXCEPT !.ground = Append(@, point)])

DividePoints(oldGround, oldElevated, grid, cloud) ==
  DivideLoop(grid, cloud, 1,
    [ground |-> ClearPoints(oldGround), elevated |-> ClearPoints(oldElevated),
     used |-> {}, fault |-> FALSE])

\* ------------------------------------------------------ 4. rasterization
\* Whether the constructor marks raster cell (i, j) as never reached.
NeverReached(i, j) == i < j \/ i >= GridWidth - j

\* The constructor's occupancy data: resize() zeroes it, then the cells
\* outside the opening angle are set to -1.
InitOccGrid ==
  [k \in 0..(GridWidth * GridHeight - 1) |->
     IF NeverReached(k % GridWidth, k \div GridWidth) THEN -1 ELSE 0]

\* x of raster row j: grid_max_range - grid_cell_size / 2, less one cell
\* size per row.
RasterX(j) == GridMaxRange - GridCellSize \div 2 - j * GridCellSize

\* Every row walked from its first raster column.
FirstColumnOfRaster(j) == 0

\* The first and one-past-last column the inner loop visits in row j.
FirstColumn(j) == j

EndColumn(j) == GridWidth - j

\* y of raster cell (i, j): x of the row, less one cell size per column
\* visited before it.
RasterY(i, j) == RasterX(j) - (i - FirstColumn(j)) * GridCellSize

\* The value with UNKNOWN falling through to the last branch.
OccValueWithoutUnknown(idx) == IF idx = "FREE" THEN 0 ELSE 100

\* The value written for a label: 0 for FREE, 50 for UNKNOWN, else 100.
OccValue(idx) ==
  IF idx = "FREE" THEN 0 ELSE IF idx = "UNKNOWN" THEN 50 ELSE 100

\* The column with only the steps that fit below z_max entirely.
RECURSIVE VoxelColumnWholeSteps(_, _, _, _)
VoxelColumnWholeSteps(x, y, v, z_max) ==
  IF v + GridCellSize <= z_max
  THEN <<VPoint(x, y, v)>>
         \o VoxelColumnWholeSteps(x, y, v + GridCellSize, z_max)
  ELSE << >>

\* "Fill elevated voxel cloud": for(v = cell.ground; v < cell.z_max;
\* v += grid_cell_size) push (x, y, v).
RECURSIVE VoxelColumn(_, _, _, _)
VoxelColumn(x, y, v, z_max) ==
  IF v < z_max
  THEN <<VPoint(x, y, v)>> \o VoxelColumn(x, y, v + GridCellSize, z_max)
  ELSE << >>

\* The body of the raster loop for cell (i, j) backed by an in-grid polar
\* cell.
RasterCell(acc, cell, i, j) ==
  LET x == RasterX(j)
      y == RasterY(i, j)
      value == OccValue(cell.idx)
  IN  [acc EXCEPT
         !.voxel_ground = Append(@, VPoint(x, y, cell.ground)),
         !.occ[j * GridWidth + i] = value,
         !.voxel_elevated =
            IF cell.idx = "FREE" \/ cell.idx = "UNKNOWN" THEN @
            ELSE @ \o VoxelColumn(x, y, cell.ground, cell.z_max)]

\* "Go through cartesian grid", from raster cell (i, j) on.
RECURSIVE RasterLoop(_, _, _, _)
RasterLoop(grid, i, j, acc) ==
  IF j >= GridHeight \/ acc.fault THEN acc
  ELSE IF i >= EndColumn(j)
       THEN IF j + 1 >= GridHeight THEN acc
            ELSE RasterLoop(grid, FirstColumn(j + 1), j + 1, acc)
  ELSE LET c == FromVeloCoordsToPolarCell(RasterX(j), RasterY(i, j))
           seen == [acc EXCEPT !.used = @ \cup {c}]
       IN  IF ~InGrid(c) THEN [seen EXCEPT !.fault = TRUE]
           ELSE RasterLoop(grid, i + 1, j,
                  RasterCell(seen, grid[c.seg][c.bin], i, j))

\* Section 4 of process() on the raster and voxel clouds the members held
\* before the call.
Rasterize(oldOcc, oldVoxelGround, oldVoxelElevated, grid) ==
  RasterLoop(grid, FirstColumn(0), 0,
    [occ |-> oldOcc, voxel_ground |-> ClearPoints(oldVoxelGround),
     voxel_elevated |-> ClearPoints(oldVoxelElevated),
     used |-> {}, fault |-> FALSE])

\* ---------------------------------------------------------------- inputs
\* The points a frame's cloud is drawn from, in sensor coordinates (cm).
\* 1-3 fall in polar cell (0, 1), 4 in (1, 2), 5 in (1, 0); 6 is outside
\* the opening angle and 7 beyond the maximum range.
BasePoints ==
  << VPoint(30, 10, -170), VPoint(30, 12, -100), VPoint(28, 14, -172),
     VPoint(50, -10, -171), VPoint(15, -5, -155),
     VPoint(10, -30, -170), VPoint(110, 0, -170) >>

\* The elements of a set of integers in increasing order.
RECURSIVE Ascending(_)
Ascending(S) ==
  IF S = {} THEN << >>
  ELSE LET m == CHOOSE a \in S : \A b \in S : a <= b
       IN  <<m>> \o Ascending(S \ {m})

\* The input clouds: the subsequences of BasePoints of at most MaxPoints
\* points.
Clouds ==
  { [k \in 1..Cardinality(S) |-> BasePoints[Ascending(S)[k]]] :
      S \in { T \in SUBSET (1..Len(BasePoints)) : Cardinality(T) <= MaxPoints } }

Topics ==
  { "cloud_filtered", "cloud_groundplane", "cloud_ground", "cloud_elevated",
    "voxel_ground", "voxel_elevated", "grid_occupancy" }

\* ----------------------------------------------------------------- state
VARIABLES
  pc,                   \* where the callback stands: "idle" between frames
  msg,                  \* the cloud of the frame being (or last) processed
  coefficients,         \* the plane's values of this frame, << >> if none
  inliers,              \* the number of inliers of this frame's fit
  warned,               \* whether this frame logged "Bad ground plane"
  published,            \* messages published in this frame, per topic
  used,                 \* the (seg, bin) pairs this frame indexed with
  polar_grid_,
  pcl_in_,
  pcl_ground_plane_,
  pcl_ground_,
  pcl_elevated_,
  pcl_voxel_ground_,
  pcl_voxel_elevated_,
  occ_grid_,            \* occ_grid_->data
  time_frame_

vars ==
  << pc, msg, coefficients, inliers, warned, published, used, polar_grid_,
     pcl_in_, pcl_ground_plane_, pcl_ground_, pcl_elevated_,
     pcl_voxel_ground_, pcl_voxel_elevated_, occ_grid_, time_frame_ >>

\* The state the constructor leaves.
Init ==
  /\ pc = "idle"
  /\ msg = << >>
  /\ coefficients = << >>
  /\ inliers = 0
  /\ warned = FALSE
  /\ published = [t \in Topics |-> 0]
  /\ used = {}
  /\ polar_grid_ = NewPolarGrid
  /\ pcl_in_ = << >>
  /\ pcl_ground_plane_ = << >>
  /\ pcl_ground_ = << >>
  /\ pcl_elevated_ = << >>
  /\ pcl_voxel_ground_ = << >>
  /\ pcl_voxel_elevated_ = << >>
  /\ occ_grid_ = InitOccGrid
  /\ time_frame_ = 0

Publish(pub, topics) ==
  [t \in Topics |-> IF t \in topics THEN pub[t] + 1 ELSE pub[t]]

\* process(), section 1: the callback is entered with a cloud, the grid is
\* reset, the cloud filtered and binned, the filtered cloud published.
FilterStep ==
  /\ pc = "idle"
  /\ time_frame_ < MaxFrames
  /\ \E cloud \in Clouds :
       LET r == FilterAndBin(polar_grid_, cloud) IN
       /\ msg' = cloud
       /\ polar_grid_' = r.grid
       /\ used' = r.used
       /\ pcl_in_' = IF r.fault THEN cloud ELSE r.filtered
       /\ published' = IF r.fault THEN [t \in Topics |-> 0]
                       ELSE Publish([t \in Topics |-> 0], {"cloud_filtered"})
       /\ pc' = IF r.fault THEN "fault" ELSE "binned"
  /\ coefficients' = << >>
  /\ inliers' = 0
  /\ warned' = FALSE
  /\ UNCHANGED << pcl_ground_plane_, pcl_ground_, pcl_elevated_,
                  pcl_voxel_ground_, pcl_voxel_elevated_, occ_grid_,
                  time_frame_ >>

\* The rest of section 2 once values[2] and values[3] have been read: the
\* sanity check warns, the candidate cloud is published.
GroundPlaneDone(values, n) ==
  /\ coefficients' = values
  /\ inliers' = n
  /\ warned' = BadGroundPlane(values, n)
  /\ published' = Publish(published, {"cloud_groundplane"})
  /\ pc' = "fitted"

\* process(), section 2.  When the fit found no model the coefficient
\* vector is empty and reading values[3] is an out-of-bounds read: the
\* process dies there, or goes on with whatever the read returned.
GroundPlaneStep ==
  /\ pc = "binned"
  /\ pcl_ground_plane_' = GroundPlanePoints(pcl_ground_plane_, polar_grid_)
  /\ \E res \in SegmentOutcomes(pcl_ground_plane_') :
       IF res.values # << >>
       THEN GroundPlaneDone(res.values, res.inliers)
       ELSE \/ /\ pc' = "crashed"
               /\ UNCHANGED << coefficients, inliers, warned, published >>
            \/ \E garbage \in Planes : GroundPlaneDone(garbage, res.inliers)
  /\ UNCHANGED << msg, used, polar_grid_, pcl_in_, pcl_ground_,
                  pcl_elevated_, pcl_voxel_ground_, pcl_voxel_elevated_,
                  occ_grid_, time_frame_ >>

\* process(), section 3: the sweep labels the cells, the filtered points
\* are divided, the ground and elevated clouds published.
ClassifyStep ==
  /\ pc = "fitted"
  /\ polar_grid_' = SweepSegments(polar_grid_, coefficients)
  /\ LET d == DividePoints(pcl_ground_, pcl_elevated_, polar_grid_', pcl_in_)
     IN  /\ pcl_ground_' = d.ground
         /\ pcl_elevated_' = d.elevated
         /\ used' = used \cup d.used
         /\ published' = IF d.fault THEN published
                         ELSE Publish(published,
                                {"cloud_ground", "cloud_elevated"})
         /\ pc' = IF d.fault THEN "fault" ELSE "classified"
  /\ UNCHANGED << msg, coefficients, inliers, warned, pcl_in_,
                  pcl_ground_plane_, pcl_voxel_ground_, pcl_voxel_elevated_,
                  occ_grid_, time_frame_ >>

\* process(), section 4: the raster and the voxel clouds are rebuilt and
\* published, the frame counter incremented; the callback returns.
RasterStep ==
  /\ pc = "classified"
  /\ LET r == Rasterize(occ_grid_, pcl_voxel_ground_, pcl_voxel_elevated_,
                        polar_grid_)
     IN  /\ occ_grid_' = r.occ
         /\ pcl_voxel_ground_' = r.voxel_ground
         /\ pcl_voxel_elevated_' = r.voxel_elevated
         /\ used' = used \cup r.used
         /\ published' = IF r.fault THEN published
                         ELSE Publish(published,
                                {"voxel_ground", "voxel_elevated",
                                 "grid_occupancy"})
         /\ time_frame_' = IF r.fault THEN time_frame_ ELSE time_frame_ + 1
         /\ pc' = IF r.fault THEN "fault" ELSE "idle"
  /\ UNCHANGED << msg, coefficients, inliers, warned, polar_grid_, pcl_in_,
                  pcl_ground_plane_, pcl_ground_, pcl_elevated_ >>

Next == FilterStep \/ GroundPlaneStep \/ ClassifyStep \/ RasterStep

Spec == Init /\ [][Next]_vars

\* ------------------------------------------------------------ properties
\* The sweep of the current frame has run and its labels are in the grid.
Swept == pc = "classified" \/ (pc = "idle" /\ time_frame_ > 0)

\* A frame has been processed to the end and no other has begun.
FrameDone == pc = "idle" /\ time_frame_ > 0

\* The current frame's filter and binning have run.
Binned ==
  pc \in {"binned", "fitted", "classified", "crashed"} \/ FrameDone

Range(seq) == { seq[k] : k \in 1..Len(seq) }

\* A cell at a smaller bin of segment s is labelled OCCUPIED.
OccupiedBefore(s, b) ==
  \E b1 \in Bins : b1 < b /\ polar_grid_[s][b1].idx = "OCCUPIED"

\* The raster cells inside the triangular footprint, their centers in
\* sensor coordinates, and the polar cell behind each.
Footprint ==
  { c \in (0..(GridWidth - 1)) \X (0..(GridHeight - 1)) :
      c[2] <= c[1] /\ c[1] < GridWidth - c[2] }

CenterX(c) == GridMaxRange - GridCellSize \div 2 - c[2] * GridCellSize

CenterY(c) == CenterX(c) - (c[1] - c[2]) * GridCellSize

Backing(c) == FromVeloCoordsToPolarCell(CenterX(c), CenterY(c))

\* C1: occlusion monotonicity.  After the sweep, in every segment, every
\* empty cell at a larger bin than a cell labelled OCCUPIED is labelled
\* UNKNOWN, never FREE.
OcclusionMonotonicity ==
  Swept =>
    \A s \in Segs : \A b1, b2 \in Bins :
      (b1 < b2 /\ polar_grid_[s][b1].idx = "OCCUPIED"
               /\ polar_grid_[s][b2].count = 0)
        => polar_grid_[s][b2].idx = "UNKNOWN"

\* The scenario of C1: a segment whose cells are empty, occupied, empty,
\* empty from near to far, labelled FREE, OCCUPIED, UNKNOWN, UNKNOWN.
OcclusionScenario ==
  /\ Swept
  /\ \E s \in Segs :
       /\ polar_grid_[s][0].count = 0 /\ polar_grid_[s][0].idx = "FREE"
       /\ polar_grid_[s][1].count > 0 /\ polar_grid_[s][1].idx = "OCCUPIED"
       /\ polar_grid_[s][2].count = 0 /\ polar_grid_[s][2].idx = "UNKNOWN"
       /\ polar_grid_[s][3].count = 0 /\ polar_grid_[s][3].idx = "UNKNOWN"

\* C2: raster/label correspondence.  After every processed frame each
\* raster cell inside the footprint holds 0 iff its backing polar cell is
\* FREE, 50 iff UNKNOWN, 100 iff OCCUPIED, and -1 is held only by cells
\* outside the footprint.
RasterLabelCorrespondence ==
  FrameDone =>
    /\ \A c \in Footprint :
         LET v == occ_grid_[c[2] * GridWidth + c[1]]
             idx == polar_grid_[Backing(c).seg][Backing(c).bin].idx
         IN  /\ v = 0 <=> idx = "FREE"
             /\ v = 50 <=> idx = "UNKNOWN"
             /\ v = 100 <=> idx = "OCCUPIED"
    /\ \A k \in DOMAIN occ_grid_ :
         occ_grid_[k] = -1 => <<k % GridWidth, k \div GridWidth>> \notin Footprint

\* A processed frame whose raster shows free, unknown and occupied cells.
RasterShowsAllLabels ==
  /\ FrameDone
  /\ \A v \in {0, 50, 100} :
       \E c \in Footprint : occ_grid_[c[2] * GridWidth + c[1]] = v

\* C3: boundary fixed cells.  Every raster cell (i, j) with i < j or
\* i >= width - j holds -1 after construction and in every state of every
\* frame.
BoundaryFixedCells ==
  \A i \in 0..(GridWidth - 1) : \A j \in 0..(GridHeight - 1) :
    (i < j \/ i >= GridWidth - j) => occ_grid_[j * GridWidth + i] = -1

\* Two frames processed, the raster written inside the footprint, a
\* boundary cell still -1.
BoundaryKeptAfterFrames ==
  /\ FrameDone /\ time_frame_ = 2
  /\ \E c \in Footprint : occ_grid_[c[2] * GridWidth + c[1]] = 100
  /\ occ_grid_[1 * GridWidth + 0] = -1

\* C4: point partition.  After the division every filtered point is in
\* exactly one of the elevated and the ground cloud; it is in the elevated
\* cloud iff its z exceeds its cell's ground and its cell's height exceeds
\* the minimum obstacle height, and then its cell is labelled OCCUPIED.
PointPartition ==
  Swept =>
    /\ Len(pcl_ground_) + Len(pcl_elevated_) = Len(pcl_in_)
    /\ \A k \in 1..Len(pcl_in_) :
         LET point == pcl_in_[k]
             at == FromVeloCoordsToPolarCell(point.x, point.y)
             cell == polar_grid_[at.seg][at.bin]
         IN  /\ (point \in Range(pcl_elevated_)) # (point \in Range(pcl_ground_))
             /\ point \in Range(pcl_elevated_)
                  <=> (point.z > cell.ground /\ cell.height > GridMinHeight)
             /\ point \in Range(pcl_elevated_) => cell.idx = "OCCUPIED"

\* A division with an elevated point and with a ground point that lies
\* above its cell's ground in a cell that is not OCCUPIED.
PartitionBothSides ==
  /\ Swept
  /\ pcl_elevated_ # << >>
  /\ \E k \in 1..Len(pcl_ground_) :
       LET point == pcl_ground_[k]
           at == FromVeloCoordsToPolarCell(point.x, point.y)
           cell == polar_grid_[at.seg][at.bin]
       IN  point.z > cell.ground /\ cell.idx # "OCCUPIED"

\* The filtered points routed to polar cell (s, b).
PointsOf(s, b) ==
  { point \in Range(pcl_in_) :
      FromVeloCoordsToPolarCell(point.x, point.y) = [seg |-> s, bin |-> b] }

\* C5: cell stats correctness.  After binning, every cell's count is the
\* number of filtered points routed to it, and for a non-empty cell z_min
\* and z_max are the least and greatest z of those points (z_min <= z_max)
\* and (x_min, y_min, z_min) is one of those points.
CellStatsCorrect ==
  Binned =>
    \A s \in Segs : \A b \in Bins :
      LET cell == polar_grid_[s][b] IN
      /\ cell.count = Cardinality(PointsOf(s, b))
      /\ cell.count > 0 =>
           /\ \A point \in PointsOf(s, b) :
                cell.z_min <= point.z /\ point.z <= cell.z_max
           /\ \E point \in PointsOf(s, b) : point.z = cell.z_max
           /\ VPoint(cell.x_min, cell.y_min, cell.z_min) \in PointsOf(s, b)
           /\ cell.z_min <= cell.z_max

\* A cell that took three points, the lowest of them not the first.
CellTookLowerPoint ==
  /\ Binned
  /\ \E s \in Segs : \E b \in Bins :
       /\ polar_grid_[s][b].count = 3
       /\ polar_grid_[s][b].z_min < polar_grid_[s][b].z_max
       /\ VPoint(polar_grid_[s][b].x_min, polar_grid_[s][b].y_min,
                 polar_grid_[s][b].z_min) # pcl_in_[1]

\* What a newly constructed instance produces for a cloud and the plane
\* values of its frame.
FreshFrame(cloud, values) ==
  LET f == FilterAndBin(NewPolarGrid, cloud)
      grid == SweepSegments(f.grid, values)
      d == DividePoints(<< >>, << >>, grid, f.filtered)
      r == Rasterize(InitOccGrid, << >>, << >>, grid)
  IN  [polar_grid |-> grid, filtered |-> f.filtered,
       ground_plane |-> GroundPlanePoints(<< >>, f.grid),
       ground |-> d.ground, elevated |-> d.elevated,
       voxel_ground |-> r.voxel_ground,
       voxel_elevated |-> r.voxel_elevated, occ |-> r.occ]

\* C6: statelessness across frames.  After every processed frame the
\* polar grid, the six point clouds and the raster equal what a newly
\* constructed instance produces from that frame's cloud and plane values,
\* whatever was processed before.
StatelessAcrossFrames ==
  FrameDone =>
    LET fresh == FreshFrame(msg, coefficients) IN
    /\ polar_grid_ = fresh.polar_grid
    /\ pcl_in_ = fresh.filtered
    /\ pcl_ground_plane_ = fresh.ground_plane
    /\ pcl_ground_ = fresh.ground
    /\ pcl_elevated_ = fresh.elevated
    /\ pcl_voxel_ground_ = fresh.voxel_ground
    /\ pcl_voxel_elevated_ = fresh.voxel_elevated
    /\ occ_grid_ = fresh.occ

\* A second frame processed to the end, with occupied cells in it.
SecondFrameDone ==
  /\ FrameDone /\ time_frame_ = 2
  /\ pcl_elevated_ # << >>
  /\ pcl_voxel_elevated_ # << >>

\* The frame is over: the callback returned or the process died in it.
FrameOver == FrameDone \/ pc = "crashed"

\* C7: degraded ground estimate is non-fatal.  A frame whose fit returned
\* no inliers, or whose center ground height is implausible, ends with
\* each of the seven outputs published exactly once.
DegradedFramePublishesAll ==
  (FrameOver /\ (inliers = 0 \/ warned)) =>
    \A t \in Topics : published[t] = 1

\* The elevated-voxel points at the center of raster cell c.
ColumnAt(c) ==
  { k \in 1..Len(pcl_voxel_elevated_) :
      /\ pcl_voxel_elevated_[k].x = CenterX(c)
      /\ pcl_voxel_elevated_[k].y = CenterY(c) }

\* C8: elevated-voxel column.  After a processed frame, every footprint
\* cell backed by an OCCUPIED polar cell carries the elevated-voxel points
\* ground, ground + cell size, ... below z_max, each once and at least
\* one; every other footprint cell carries none, and no elevated-voxel
\* point lies elsewhere.
ElevatedVoxelColumn ==
  FrameDone =>
    /\ \A c \in Footprint :
         LET cell == polar_grid_[Backing(c).seg][Backing(c).bin]
             zs == { pcl_voxel_elevated_[k].z : k \in ColumnAt(c) }
         IN  IF cell.idx = "OCCUPIED"
             THEN /\ cell.ground \in zs
                  /\ zs = { z \in cell.ground..(cell.z_max - 1) :
                              (z - cell.ground) % GridCellSize = 0 }
                  /\ Cardinality(ColumnAt(c)) = Cardinality(zs)
             ELSE ColumnAt(c) = {}
    /\ \A k \in 1..Len(pcl_voxel_elevated_) :
         \E c \in Footprint : k \in ColumnAt(c)

\* A processed frame with an OCCUPIED cell lower than one step (a column
\* of one point) and one higher than a step (a column of several).
ShortAndTallColumns ==
  /\ FrameDone
  /\ \E c \in Footprint :
       LET cell == polar_grid_[Backing(c).seg][Backing(c).bin] IN
       /\ cell.idx = "OCCUPIED"
       /\ cell.z_max - cell.ground < GridCellSize
       /\ Cardinality(ColumnAt(c)) = 1
  /\ \E c \in Footprint : Cardinality(ColumnAt(c)) > 1

\* C9: polar index safety.  Every (seg, bin) pair a frame indexes the
\* polar grid with - in binning, in the division, in rasterization - lies
\* in the grid; after a processed frame these include the cell behind
\* every footprint position; and an input point whose pair lies outside
\* the grid fails the gate and is not among the filtered points.
PolarIndexSafety ==
  /\ pc # "fault"
  /\ \A c \in used : InGrid(c)
  /\ FrameDone => \A c \in Footprint : Backing(c) \in used
  /\ Binned =>
       \A k \in 1..Len(msg) :
         ~InGrid(FromVeloCoordsToPolarCell(msg[k].x, msg[k].y))
           => ~PassesGate(msg[k]) /\ msg[k] \notin Range(pcl_in_)

\* A processed frame that binned and divided points, dropped a point whose
\* pair lies outside the grid, and rasterized the edge position x = -y.
IndexedEverywhere ==
  /\ FrameDone
  /\ pcl_in_ # << >>
  /\ \E k \in 1..Len(msg) :
       ~InGrid(FromVeloCoordsToPolarCell(msg[k].x, msg[k].y))
  /\ \E c \in Footprint : CenterX(c) = -CenterY(c) /\ Backing(c) \in used

\* C10: no occlusion without an obstacle.  After the sweep every cell has
\* one of the three labels; it is OCCUPIED iff it is non-empty and higher
\* than the minimum obstacle height; any other cell, empty or not, is
\* UNKNOWN if a cell at a smaller bin of its own segment is OCCUPIED and
\* FREE otherwise.
NoOcclusionWithoutObstacle ==
  Swept =>
    \A s \in Segs : \A b \in Bins :
      LET cell == polar_grid_[s][b] IN
      /\ cell.idx \in {"FREE", "UNKNOWN", "OCCUPIED"}
      /\ cell.idx = "OCCUPIED"
           <=> (cell.count > 0 /\ cell.z_max - cell.ground > GridMinHeight)
      /\ cell.idx = "UNKNOWN" => OccupiedBefore(s, b)
      /\ cell.idx = "FREE" => ~OccupiedBefore(s, b)

\* A sweep with a low non-empty cell labelled FREE while another segment
\* holds an OCCUPIED cell at a smaller bin, and a low non-empty cell
\* labelled UNKNOWN behind an OCCUPIED cell of its own segment.
LowCellsFollowTheirSegment ==
  /\ Swept
  /\ \E s, t \in Segs : \E b, b1 \in Bins :
       /\ s # t /\ b1 < b
       /\ polar_grid_[s][b].count > 0 /\ polar_grid_[s][b].idx = "FREE"
       /\ polar_grid_[t][b1].idx = "OCCUPIED"
  /\ \E s \in Segs : \E b \in Bins :
       polar_grid_[s][b].count > 0 /\ polar_grid_[s][b].idx = "UNKNOWN"

====
